---- MODULE Spec2Model ----
(***************************************************************************)
(* UpbitWebSocket (src/api/upbit_websocket.py): the streaming subscription *)
(* client.  Coroutines run on one asyncio event loop: a task runs          *)
(* atomically from one suspension point (socket open/close/send/recv,      *)
(* sleep, queue get, callback) to the next.  `cur` is the task holding the *)
(* loop; every task keeps a call stack of frames, top first.               *)
(***************************************************************************)
EXTENDS Integers, Sequences, FiniteSets, TLC

\* ---- bounds of the model
MaxSockets == 4     \* sockets the transport hands out
MaxTime == 1        \* ticks of the clock
\* the monitored client: calls from outside, transport faults, inbound frames
MaxOps == 1
MaxFaults == 1
MaxFrames == 2
\* the client used without start_monitoring
ApiOps == 3
ApiFaults == 1
\* two callers subscribing at the same time
AuthOps == 2
\* two callers connecting and closing at the same time
PairOps == 3
PairFaults == 1
\* the monitored client alone: stream faults, frames read, callback raises
LoopFaults == 1
LoopFrames == 2
MaxRaises == 1
\* the monitored client with a silent peer: calls from outside, transport faults
FairOps == 2
FairFaults == 1
\* _ensure_auth called on its own: ticks of the clock, calls
TokenTime == 3
TokenOps == 3
\* connect() after subscribes, sends failing one after the other
ChainOps == 3
ChainFaults == 3

\* ---- program constants
TOKEN_REFRESH_INTERVAL == 86400

Markets == {"KRW-BTC", "KRW-ETH"}
MarketLists == {<<"KRW-BTC">>, <<"KRW-ETH">>, <<"KRW-BTC", "KRW-ETH">>}
TYPES == <<"ticker", "orderbook", "trade">>
TypeNames == {"ticker", "orderbook", "trade"}
Tasks == {"orch", "recv", "proc", "ext", "ext2"}
Callers == {"ext", "ext2"}
None == 0
Sockets == 1..MaxSockets
NoToken == [tok |-> "none", exp |-> 0]
NoMsg == <<>>
NoRequest == [pc |-> "none", call |-> 0, side |-> "-", retry |-> 0, out |-> "-", last |-> "-"]
PONG == <<"pong", <<>>>>

VARIABLES
    websocket,          \* self.websocket: None or a socket
    is_connected,       \* self.is_connected
    subscribed_markets, \* self.subscribed_markets (set)
    subscribed_types,   \* self.subscribed_types: ordered dict market -> list of types
    auth,               \* self.auth_token / self.auth_expires_at
    message_queue,      \* self.message_queue (FIFO)
    sockState,          \* transport: every socket is "unused", "open" or "closed"
    lastSent,           \* transport: the frame sent last and the socket it went to
    store,              \* websocket_auth row of the database
    now,                \* the clock
    stack,              \* per task: the coroutine call stack, top first
    ret,                \* per task: what the last finished call returned or raised
    cur,                \* the task running on the event loop, or "none"
    extOp,              \* the call the external caller made last
    inLog,              \* history: the frames the Receiver read, in order
    delivered,          \* history: the messages handed to the callback, in order
    authOut,            \* history: per task, how its last _ensure_auth call ended
    nFaults, nOps,      \* transport faults and outside calls so far
    nSaves,             \* save_auth calls so far
    limits,             \* how many faults, frames and calls this run may see
    request,            \* UpbitAPI: the place_order call in progress, or none
    orders              \* the exchange: the orders it has accepted, in order

vars == <<websocket, is_connected, subscribed_markets, subscribed_types, auth,
          message_queue, sockState, lastSent, store, now, stack, ret, cur, extOp,
          inLog, delivered, authOut, nFaults, nOps, nSaves, limits, request, orders>>

client == <<websocket, is_connected>>
registry == <<subscribed_markets, subscribed_types>>
tokens == <<auth, store, nSaves, authOut>>
pipeline == <<message_queue, inLog, delivered>>
transport == <<sockState, lastSent>>
budgets == <<nFaults, nOps, limits>>
rest == <<request, orders>>

\* ---- the ordered dict subscribed_types and the lists in it
RECURSIVE InSeq(_, _)
InSeq(x, s) == IF s = <<>> THEN FALSE ELSE Head(s) = x \/ InSeq(x, Tail(s))

RECURSIVE RemoveFirst(_, _)
RemoveFirst(x, s) ==
    IF s = <<>> THEN <<>>
    ELSE IF Head(s) = x THEN Tail(s) ELSE <<Head(s)>> \o RemoveFirst(x, Tail(s))

RECURSIVE DictGet(_, _)
DictGet(d, m) ==
    IF d = <<>> THEN <<>>
    ELSE IF Head(d).market = m THEN Head(d).types ELSE DictGet(Tail(d), m)

RECURSIVE DictHas(_, _)
DictHas(d, m) == IF d = <<>> THEN FALSE ELSE Head(d).market = m \/ DictHas(Tail(d), m)

RECURSIVE DictSet(_, _, _)
DictSet(d, m, ts) ==
    IF d = <<>> THEN <<[market |-> m, types |-> ts]>>
    ELSE IF Head(d).market = m THEN <<[market |-> m, types |-> ts]>> \o Tail(d)
    ELSE <<Head(d)>> \o DictSet(Tail(d), m, ts)

RECURSIVE DictDel(_, _)
DictDel(d, m) ==
    IF d = <<>> THEN <<>>
    ELSE IF Head(d).market = m THEN Tail(d) ELSE <<Head(d)>> \o DictDel(Tail(d), m)

SeqToSet(s) == {s[k] : k \in 1..Len(s)}

\* a subscribe that appends the type without looking for it in the list
RECURSIVE AddTypesAppends(_, _, _)
AddTypesAppends(d, mk, typ) ==
    IF mk = <<>> THEN d
    ELSE LET m == Head(mk)
             d1 == IF DictHas(d, m) THEN d ELSE DictSet(d, m, <<>>)
         IN AddTypesAppends(DictSet(d1, m, Append(DictGet(d1, m), typ)), Tail(mk), typ)

\* _subscribe, lines 215-220: the registry after one successful subscribe
RECURSIVE AddTypes(_, _, _)
AddTypes(d, mk, typ) ==
    IF mk = <<>> THEN d
    ELSE LET m == Head(mk)
             d1 == IF DictHas(d, m) THEN d ELSE DictSet(d, m, <<>>)
             ts == DictGet(d1, m)
             d2 == IF InSeq(typ, ts) THEN d1 ELSE DictSet(d1, m, Append(ts, typ))
         IN AddTypes(d2, Tail(mk), typ)

AddMarkets(ms, mk) == ms \cup SeqToSet(mk)

\* an unsubscribe whose all-types branch leaves the dict entry in place
UnsubTypesKeepsEntry(d, m, typ) ==
    IF typ # "all" /\ DictHas(d, m)
    THEN IF InSeq(typ, DictGet(d, m))
         THEN LET ts == RemoveFirst(typ, DictGet(d, m))
              IN IF ts = <<>> THEN DictDel(d, m) ELSE DictSet(d, m, ts)
         ELSE d
    ELSE d

\* unsubscribe, lines 246-256: typ = "all" stands for type_name=None
UnsubTypes(d, m, typ) ==
    IF typ # "all" /\ DictHas(d, m)
    THEN IF InSeq(typ, DictGet(d, m))
         THEN LET ts == RemoveFirst(typ, DictGet(d, m))
              IN IF ts = <<>> THEN DictDel(d, m) ELSE DictSet(d, m, ts)
         ELSE d
    ELSE IF DictHas(d, m) THEN DictDel(d, m) ELSE d

UnsubMarkets(ms, d, m, typ) ==
    IF typ # "all" /\ DictHas(d, m)
    THEN IF InSeq(typ, DictGet(d, m)) /\ RemoveFirst(typ, DictGet(d, m)) = <<>>
         THEN ms \ {m}
         ELSE ms
    ELSE ms \ {m}

\* a resubscribe_all that lists every registered market under every type
MarketsForAnyType(d, typ) == [k \in 1..Len(d) |-> d[k].market]

\* resubscribe_all, lines 276-279: the markets listed for one type
RECURSIVE MarketsFor(_, _)
MarketsFor(d, typ) ==
    IF d = <<>> THEN <<>>
    ELSE (IF InSeq(typ, Head(d).types) THEN <<Head(d).market>> ELSE <<>>)
         \o MarketsFor(Tail(d), typ)

\* resubscribe_all, lines 275-282: the first type from position i on that has markets
RECURSIVE NextType(_, _)
NextType(d, i) ==
    IF i > Len(TYPES) THEN 0
    ELSE IF MarketsFor(d, TYPES[i]) # <<>> THEN i ELSE NextType(d, i + 1)

\* ---- authentication
\* _create_jwt_token, line 63: self.secret_key is never assigned, the attribute
\* lookup raises AttributeError before jwt.encode runs
CreateJwtToken(n) == "AttributeError"

\* DatabaseManager.get_auth: the stored row or (None, None)
GetAuth(st) == st

\* DatabaseManager.save_auth: the old row is deleted, the new one inserted
SaveAuth(st, tok, exp) == [tok |-> tok, exp |-> exp]

\* whether a token that has not expired is in memory or in the store
ValidToken(a, st, t) == (a.tok # "none" /\ t < a.exp) \/ (st.tok # "none" /\ st.exp > t)
NoAuthOut ==
    [res |-> "none", tok |-> "none", fresh |-> FALSE, conc |-> FALSE, db |-> "ok"]

\* the database during one call: it answers; the query raises a mysql Error; or
\* no connection can be made
StoreModes == {"ok", "error", "down"}

\* get_auth, lines 206-220: the row; (None, None) when the query raises Error
\* (lines 218-220); with no connection __init__ has left the cursor None and
\* line 209 raises AttributeError, which `except Error` does not catch
GetAuthWith(st, db) ==
    IF db = "ok" THEN [raised |-> FALSE, row |-> GetAuth(st)]
    ELSE IF db = "error" THEN [raised |-> FALSE, row |-> NoToken]
    ELSE [raised |-> TRUE, row |-> NoToken]

\* save_auth, lines 169-193: the same three outcomes; a failed save leaves the
\* table as it was (nothing is committed)
SaveAuthWith(st, tok, exp, db) ==
    IF db = "ok" THEN [raised |-> FALSE, store |-> SaveAuth(st, tok, exp), saved |-> 1]
    ELSE IF db = "error" THEN [raised |-> FALSE, store |-> st, saved |-> 0]
    ELSE [raised |-> TRUE, store |-> st, saved |-> 0]

\* an _ensure_auth that takes the stored row whatever its expiry
EnsureAuthAnyRow(a, st, t, n, db) ==
    IF a.tok # "none" /\ t < a.exp
    THEN [res |-> "ok", tok |-> a.tok, auth |-> a, store |-> st, nSaves |-> n]
    ELSE LET got == GetAuthWith(st, db) IN
         IF got.raised \/ got.row.tok = "none"
         THEN [res |-> "raise", tok |-> "none", auth |-> a, store |-> st, nSaves |-> n]
         ELSE [res |-> "ok", tok |-> got.row.tok, auth |-> got.row, store |-> st,
               nSaves |-> n]

\* _ensure_auth, lines 65-92, under the state db of the database: the result
\* and the token state after it
EnsureAuthWith(a, st, t, n, db) ==
    IF a.tok # "none" /\ t < a.exp
    THEN [res |-> "ok", tok |-> a.tok, auth |-> a, store |-> st, nSaves |-> n]
    ELSE LET got == GetAuthWith(st, db) IN
         IF got.raised
         THEN [res |-> "raise", tok |-> "none", auth |-> a, store |-> st, nSaves |-> n]
         ELSE IF got.row.tok # "none" /\ got.row.exp > t
         THEN [res |-> "ok", tok |-> got.row.tok, auth |-> got.row, store |-> st,
               nSaves |-> n]
         ELSE LET minted == CreateJwtToken(n) IN
              IF minted = "AttributeError"
              THEN [res |-> "raise", tok |-> "none", auth |-> a, store |-> st,
                    nSaves |-> n]
              ELSE LET a2 == [tok |-> minted, exp |-> t + TOKEN_REFRESH_INTERVAL]
                       put == SaveAuthWith(st, a2.tok, a2.exp, db)
                   IN IF put.raised
                      THEN [res |-> "raise", tok |-> "none", auth |-> a2, store |-> st,
                            nSaves |-> n]
                      ELSE [res |-> "ok", tok |-> minted, auth |-> a2,
                            store |-> put.store, nSaves |-> n + put.saved]

\* _ensure_auth with a database that answers
EnsureAuth(a, st, t, n) == EnsureAuthWith(a, st, t, n, "ok")

\* ---- coroutine frames and the event loop
\* fn, pc and the locals typ, mk, i, sock are the coroutine's; log, reg, n and
\* stable are history: what resubscribe_all and unsubscribe have called so far,
\* the registry when the call (or the Receiver's recovery) began, the number of
\* outside calls then, and whether the registry has stayed as it was
Frame(fn, pc) ==
    [fn |-> fn, pc |-> pc, typ |-> "-", mk |-> <<>>, i |-> 0, sock |-> None,
     n |-> 0, log |-> <<>>, reg |-> <<>>, stable |-> TRUE]

\* the frames coroutines start with
ConnectFrame == Frame("connect", "start")
CloseFrame == Frame("close", "start")
ResubFrame == Frame("resub", "start")
SubscribeFrame == Frame("subscribe", "start")
UnsubFrame == Frame("unsub", "start")
RecvWaitFrame == Frame("recv", "recv")
ReceiverFrame == Frame("recv", "loop")
ProcessorFrame == Frame("proc", "get")
OrchFrame == Frame("orch", "start")
CancelledFrame == Frame("orch", "cancelled")

Top(t) == Head(stack[t])
At(t, fn, pc) ==
    /\ cur \in {"none", t}
    /\ stack[t] # <<>>
    /\ Top(t).fn = fn
    /\ Top(t).pc = pc
SetTop(t, f) == [stack EXCEPT ![t] = <<f>> \o Tail(@)]
Result(v, msg) == [v |-> v, msg |-> msg]
NoResult == Result("none", NoMsg)
Sent(s, msg) == [sock |-> s, msg |-> msg]

\* the top coroutine calls `callee` and will go on at `caller`
Call(t, caller, callee) ==
    /\ stack' = [stack EXCEPT ![t] = <<callee, caller>> \o Tail(@)]
    /\ cur' = t
    /\ ret' = [ret EXCEPT ![t] = NoResult]

\* the top coroutine returns v (or raises, v = "raise") to its caller
Return(t, v, msg) ==
    /\ stack' = [stack EXCEPT ![t] = Tail(@)]
    /\ ret' = [ret EXCEPT ![t] = Result(v, msg)]
    /\ cur' = IF Tail(stack[t]) = <<>> THEN "none" ELSE t

\* the top coroutine suspends at an await
Suspend(t, f) ==
    /\ stack' = SetTop(t, f)
    /\ cur' = "none"
    /\ ret' = [ret EXCEPT ![t] = NoResult]

\* the top coroutine goes on without giving up the loop
Continue(t, f) ==
    /\ stack' = SetTop(t, f)
    /\ cur' = t
    /\ ret' = [ret EXCEPT ![t] = NoResult]

Healthy == websocket # None /\ sockState[websocket] = "open"
FreeSockets == {s \in Sockets : sockState[s] = "unused"}
NewSocket == CHOOSE s \in FreeSockets : \A r \in FreeSockets : s <= r

\* a connect() without the early return of lines 100-102
ConnectStartAlways(t) ==
    /\ At(t, "connect", "start")
    /\ IF websocket # None
       THEN Suspend(t, [Top(t) EXCEPT !.pc = "closing", !.sock = websocket])
       ELSE Suspend(t, [Top(t) EXCEPT !.pc = "opening"])
    /\ UNCHANGED <<client, registry, tokens, pipeline, transport, now, rest, extOp, budgets>>

\* ---- connect(), lines 98-127
ConnectStart(t) ==
    /\ At(t, "connect", "start")
    /\ IF Healthy
       THEN Return(t, "ok", NoMsg)
       ELSE IF websocket # None
            THEN Suspend(t, [Top(t) EXCEPT !.pc = "closing", !.sock = websocket])
            ELSE Suspend(t, [Top(t) EXCEPT !.pc = "opening"])
    /\ UNCHANGED <<client, registry, tokens, pipeline, transport, now, rest, extOp, budgets>>

\* line 108 finished (an error of close() is logged and ignored), line 111, and
\* the coroutine awaits websockets.connect
ConnectStaleClosed(t) ==
    /\ At(t, "connect", "closing")
    /\ sockState' = [sockState EXCEPT ![Top(t).sock] = "closed"]
    /\ websocket' = None
    /\ Suspend(t, [Top(t) EXCEPT !.pc = "opening", !.sock = None])
    /\ UNCHANGED <<is_connected, registry, tokens, pipeline, lastSent, now, rest, extOp, budgets>>

\* a connect() that does not restore the subscriptions
ConnectOpenedNoRestore(t) ==
    /\ At(t, "connect", "opening")
    /\ FreeSockets # {}
    /\ sockState' = [sockState EXCEPT ![NewSocket] = "open"]
    /\ websocket' = NewSocket
    /\ is_connected' = TRUE
    /\ Return(t, "ok", NoMsg)
    /\ UNCHANGED <<registry, tokens, pipeline, lastSent, now, rest, extOp, budgets>>

\* lines 114-121: the handshake succeeded
ConnectOpened(t) ==
    /\ At(t, "connect", "opening")
    /\ FreeSockets # {}
    /\ sockState' = [sockState EXCEPT ![NewSocket] = "open"]
    /\ websocket' = NewSocket
    /\ is_connected' = TRUE
    /\ IF subscribed_markets # {}
       THEN Call(t, [Top(t) EXCEPT !.pc = "resubbed"], ResubFrame)
       ELSE Return(t, "ok", NoMsg)
    /\ UNCHANGED <<registry, tokens, pipeline, lastSent, now, rest, extOp, budgets>>

\* a connect() that logs the failed handshake and returns
ConnectOpenFailedQuiet(t) ==
    /\ At(t, "connect", "opening")
    /\ nFaults < limits.faults
    /\ nFaults' = nFaults + 1
    /\ is_connected' = FALSE
    /\ websocket' = None
    /\ Return(t, "ok", NoMsg)
    /\ UNCHANGED <<registry, tokens, pipeline, transport, now, rest, extOp, nOps, limits>>

\* lines 123-127: the handshake failed
ConnectOpenFailed(t) ==
    /\ At(t, "connect", "opening")
    /\ nFaults < limits.faults
    /\ nFaults' = nFaults + 1
    /\ is_connected' = FALSE
    /\ websocket' = None
    /\ Return(t, "raise", NoMsg)
    /\ UNCHANGED <<registry, tokens, pipeline, transport, now, rest, extOp, nOps, limits>>

\* line 121 returned, or raised into lines 123-127
ConnectResubbed(t) ==
    /\ At(t, "connect", "resubbed")
    /\ IF ret[t].v = "raise"
       THEN /\ is_connected' = FALSE
            /\ websocket' = None
            /\ Return(t, "raise", NoMsg)
       ELSE /\ UNCHANGED client
            /\ Return(t, "ok", NoMsg)
    /\ UNCHANGED <<registry, tokens, pipeline, transport, now, rest, extOp, budgets>>

\* ---- close(), lines 129-139
CloseStart(t) ==
    /\ At(t, "close", "start")
    /\ IF websocket # None
       THEN Suspend(t, [Top(t) EXCEPT !.pc = "closing", !.sock = websocket])
       ELSE Return(t, "ok", NoMsg)
    /\ UNCHANGED <<client, registry, tokens, pipeline, transport, now, rest, extOp, budgets>>

CloseDone(t) ==
    /\ At(t, "close", "closing")
    /\ sockState' = [sockState EXCEPT ![Top(t).sock] = "closed"]
    /\ websocket' = None
    /\ is_connected' = FALSE
    /\ Return(t, "ok", NoMsg)
    /\ UNCHANGED <<registry, tokens, pipeline, lastSent, now, rest, extOp, budgets>>

\* ---- _subscribe(type_name, markets), lines 181-229
\* lines 197-204: the frame (the ticket, isOnlyRealtime and the format element are
\* the same in every frame and left out)
SubscribeMessage(typ, mk) == <<typ, mk>>

\* lines 225-229
SubscribeExcept(t) ==
    /\ is_connected' = FALSE
    /\ websocket' = None
    /\ Return(t, "false", NoMsg)

\* lines 195-212, up to the await of send
SubscribeTry(t) ==
    LET ea == EnsureAuth(auth, store, now, nSaves) IN
    /\ auth' = ea.auth
    /\ store' = ea.store
    /\ nSaves' = ea.nSaves
    /\ authOut' = [authOut EXCEPT ![t] =
                       [res |-> ea.res, tok |-> ea.tok,
                        fresh |-> ~ValidToken(auth, store, now),
                        conc |-> \A c \in Callers : stack[c] # <<>>,
                        db |-> "ok"]]
    /\ IF ea.res = "raise" \/ ~Healthy
       THEN SubscribeExcept(t)
       ELSE /\ Suspend(t, [Top(t) EXCEPT !.pc = "sending", !.sock = websocket])
            /\ UNCHANGED client

\* lines 192-193
SubscribeStart(t) ==
    /\ At(t, "subscribe", "start")
    /\ IF ~is_connected \/ websocket = None
       THEN /\ Call(t, [Top(t) EXCEPT !.pc = "connected"], ConnectFrame)
            /\ UNCHANGED <<client, tokens>>
       ELSE SubscribeTry(t)
    /\ UNCHANGED <<registry, pipeline, transport, now, rest, extOp, budgets>>

\* line 193 returned; an exception of connect() is outside the try and leaves
\* _subscribe
SubscribeConnected(t) ==
    /\ At(t, "subscribe", "connected")
    /\ IF ret[t].v = "raise"
       THEN /\ Return(t, "raise", NoMsg)
            /\ UNCHANGED <<client, tokens>>
       ELSE SubscribeTry(t)
    /\ UNCHANGED <<registry, pipeline, transport, now, rest, extOp, budgets>>

\* line 212 finished: lines 214-223, or ConnectionClosed into lines 225-229
SubscribeSent(t) ==
    /\ At(t, "subscribe", "sending")
    /\ LET f == Top(t)
           msg == SubscribeMessage(f.typ, f.mk)
       IN IF sockState[f.sock] # "open"
          THEN /\ SubscribeExcept(t)
               /\ UNCHANGED <<registry, lastSent>>
          ELSE /\ lastSent' = Sent(f.sock, msg)
               /\ subscribed_markets' = AddMarkets(subscribed_markets, f.mk)
               /\ subscribed_types' = AddTypes(subscribed_types, f.mk, f.typ)
               /\ Return(t, "true", msg)
               /\ UNCHANGED client
    /\ UNCHANGED <<tokens, pipeline, sockState, now, rest, extOp, budgets>>

\* ---- resubscribe_all(), lines 269-282
\* the loop from type position i on: the next _subscribe call, or the end
ResubLoop(t, f, i) ==
    LET j == NextType(subscribed_types, i)
        g == [f EXCEPT !.stable = f.stable /\ subscribed_types = f.reg]
    IN IF j = 0
       THEN Continue(t, [g EXCEPT !.pc = "done"])
       ELSE LET markets == MarketsFor(subscribed_types, TYPES[j]) IN
            Call(t, [g EXCEPT !.pc = "called", !.i = j,
                              !.log = Append(@, [att |-> <<TYPES[j], markets>>,
                                                 msg |-> NoMsg])],
                 [SubscribeFrame EXCEPT !.typ = TYPES[j], !.mk = markets])

ResubStart(t) ==
    /\ At(t, "resub", "start")
    /\ IF subscribed_types = <<>>
       THEN Return(t, "ok", NoMsg)
       ELSE ResubLoop(t, [Top(t) EXCEPT !.reg = subscribed_types], 1)
    /\ UNCHANGED <<client, registry, tokens, pipeline, transport, now, rest, extOp, budgets>>

\* line 282 returned (the result is ignored) or raised
ResubCalled(t) ==
    /\ At(t, "resub", "called")
    /\ IF ret[t].v = "raise"
       THEN Return(t, "raise", NoMsg)
       ELSE LET f == Top(t)
                g == IF ret[t].v = "true"
                     THEN [f EXCEPT !.log[Len(f.log)].msg = ret[t].msg]
                     ELSE f
            IN ResubLoop(t, g, f.i + 1)
    /\ UNCHANGED <<client, registry, tokens, pipeline, transport, now, rest, extOp, budgets>>

ResubDone(t) ==
    /\ At(t, "resub", "done")
    /\ Return(t, "ok", NoMsg)
    /\ UNCHANGED <<client, registry, tokens, pipeline, transport, now, rest, extOp, budgets>>

\* ---- unsubscribe(market, type_name), lines 231-267
UnsubStart(t) ==
    /\ At(t, "unsub", "start")
    /\ LET f == Top(t)
           m == f.mk[1]
       IN IF m \notin subscribed_markets
          THEN /\ Return(t, "false", NoMsg)
               /\ UNCHANGED registry
          ELSE /\ subscribed_types' = UnsubTypes(subscribed_types, m, f.typ)
               /\ subscribed_markets' =
                      UnsubMarkets(subscribed_markets, subscribed_types, m, f.typ)
               /\ Call(t, [f EXCEPT !.pc = "closed", !.log = <<"close">>], CloseFrame)
    /\ UNCHANGED <<client, tokens, pipeline, transport, now, rest, extOp, budgets>>

\* line 260 returned (close() raises nothing), line 261
UnsubClosed(t) ==
    /\ At(t, "unsub", "closed")
    /\ Call(t, [Top(t) EXCEPT !.pc = "connected", !.log = Append(@, "connect")],
            ConnectFrame)
    /\ UNCHANGED <<client, registry, tokens, pipeline, transport, now, rest, extOp, budgets>>

\* an unsubscribe that relies on connect() to resubscribe
UnsubConnectedNoResub(t) ==
    /\ At(t, "unsub", "connected")
    /\ IF ret[t].v = "raise"
       THEN Return(t, "false", NoMsg)
       ELSE Return(t, "true", NoMsg)
    /\ UNCHANGED <<client, registry, tokens, pipeline, transport, now, rest, extOp, budgets>>

\* lines 261-262: connect() returned, or raised into lines 265-267
UnsubConnected(t) ==
    /\ At(t, "unsub", "connected")
    /\ IF ret[t].v = "raise"
       THEN Return(t, "false", NoMsg)
       ELSE Call(t, [Top(t) EXCEPT !.pc = "resubbed", !.log = Append(@, "resub")],
                 ResubFrame)
    /\ UNCHANGED <<client, registry, tokens, pipeline, transport, now, rest, extOp, budgets>>

\* line 262 returned (lines 263-264), or raised into lines 265-267
UnsubResubbed(t) ==
    /\ At(t, "unsub", "resubbed")
    /\ IF ret[t].v = "raise"
       THEN Return(t, "false", NoMsg)
       ELSE Return(t, "true", NoMsg)
    /\ UNCHANGED <<client, registry, tokens, pipeline, transport, now, rest, extOp, budgets>>

\* ---- inbound frames: a keepalive ping, a JSON document, or text that is no JSON
FrameKinds == {"ping", "data", "bad"}
\* and a JSON document whose text has the letters "ping" in it
PingData == "pingdata"
InFrame(kind, id, s) == [kind |-> kind, id |-> id, sock |-> s]
\* line 337: "ping" in data
IsPing(fr) == fr.kind \in {"ping", PingData}
\* a decoder that accepts any text
DecodeAnything(fr) == <<"msg", fr.id>>

\* line 343: json.loads(data), the message or JSONDecodeError
Decode(fr) ==
    IF fr.kind \in {"data", PingData} THEN <<"msg", fr.id>> ELSE <<"JSONDecodeError">>

\* a queue that puts at the head
QueuePutFirst(q, m) == <<m>> \o q

\* asyncio.Queue: put at the tail, get from the head
QueuePut(q, m) == Append(q, m)
QueueGet(q) == [msg |-> Head(q), rest |-> Tail(q)]

\* ---- _message_receiver(), lines 308-360
CallersIdle == \A c \in Callers : stack[c] = <<>>

\* lines 348-360: both handlers do the same
RecvDisconnected(t) ==
    /\ is_connected' = FALSE
    /\ websocket' = None
    /\ Suspend(t, [Top(t) EXCEPT !.pc = "sleep", !.i = 1, !.sock = None,
                                 !.log = <<"failed">>, !.reg = subscribed_types,
                                 !.n = nOps, !.stable = CallersIdle])

\* lines 327-334
RecvCheck(t) ==
    IF sockState[websocket] # "open"
    THEN /\ is_connected' = FALSE
         /\ websocket' = None
         /\ Continue(t, [Top(t) EXCEPT !.pc = "loop", !.sock = None])
    ELSE /\ Suspend(t, [RecvWaitFrame EXCEPT !.sock = websocket])
         /\ UNCHANGED client

\* lines 313-316
RecvLoop(t) ==
    /\ At(t, "recv", "loop")
    /\ IF ~is_connected \/ websocket = None
       THEN /\ Call(t, [Top(t) EXCEPT !.pc = "connected"], ConnectFrame)
            /\ UNCHANGED client
       ELSE RecvCheck(t)
    /\ UNCHANGED <<registry, tokens, pipeline, transport, now, rest, extOp, budgets>>

\* lines 317-324: connect() returned or raised
RecvConnected(t) ==
    /\ At(t, "recv", "connected")
    /\ IF ret[t].v = "raise" \/ ~is_connected \/ websocket = None
       THEN /\ Suspend(t, [Top(t) EXCEPT !.pc = "sleep", !.i = 5])
            /\ UNCHANGED client
       ELSE RecvCheck(t)
    /\ UNCHANGED <<registry, tokens, pipeline, transport, now, rest, extOp, budgets>>

\* line 334 raised ConnectionClosed: the socket the Receiver reads is closed
RecvFailed(t) ==
    /\ At(t, "recv", "recv")
    /\ sockState[Top(t).sock] # "open"
    /\ RecvDisconnected(t)
    /\ UNCHANGED <<registry, tokens, pipeline, transport, now, rest, extOp, budgets>>

\* line 334 returned a frame: lines 337-346
RecvFrame(t, kind) ==
    /\ At(t, "recv", "recv")
    /\ sockState[Top(t).sock] = "open"
    /\ Len(inLog) < limits.frames
    /\ LET fr == InFrame(kind, Len(inLog) + 1, Top(t).sock) IN
       /\ inLog' = Append(inLog, fr)
       /\ IF IsPing(fr)
          THEN /\ IF ~Healthy
                  THEN RecvDisconnected(t)
                  ELSE /\ Suspend(t, [Top(t) EXCEPT !.pc = "ponging", !.sock = websocket])
                       /\ UNCHANGED client
               /\ UNCHANGED message_queue
          ELSE /\ IF Decode(fr) = <<"JSONDecodeError">>
                  THEN UNCHANGED message_queue
                  ELSE message_queue' = QueuePut(message_queue, Decode(fr))
               /\ Continue(t, [Top(t) EXCEPT !.pc = "loop", !.sock = None])
               /\ UNCHANGED client
    /\ UNCHANGED <<registry, tokens, transport, now, rest, extOp, delivered, budgets>>

\* line 338 finished
RecvPonged(t) ==
    /\ At(t, "recv", "ponging")
    /\ IF sockState[Top(t).sock] # "open"
       THEN /\ RecvDisconnected(t)
            /\ UNCHANGED lastSent
       ELSE /\ lastSent' = Sent(Top(t).sock, PONG)
            /\ Continue(t, [Top(t) EXCEPT !.pc = "loop", !.sock = None])
            /\ UNCHANGED client
    /\ UNCHANGED <<registry, tokens, pipeline, sockState, now, rest, extOp, budgets>>

\* asyncio.sleep(5) or asyncio.sleep(1) is over
RecvWake(t) ==
    /\ At(t, "recv", "sleep")
    /\ Continue(t, [Top(t) EXCEPT !.pc = "loop", !.i = 0])
    /\ UNCHANGED <<client, registry, tokens, pipeline, transport, now, rest, extOp, budgets>>

\* ---- _message_processor(), lines 362-380
\* lines 367-372: the next message is taken and the callback called with it
ProcTake(t) ==
    /\ message_queue' = QueueGet(message_queue).rest
    /\ delivered' = Append(delivered, QueueGet(message_queue).msg)
    /\ Suspend(t, [Top(t) EXCEPT !.pc = "callback"])
    /\ UNCHANGED inLog

ProcGet(t) ==
    /\ At(t, "proc", "get")
    /\ message_queue # <<>>
    /\ ProcTake(t)
    /\ UNCHANGED <<client, registry, tokens, transport, now, rest, extOp, budgets>>

\* the callback returned or raised (lines 373-376), and the loop goes on to the
\* next get
ProcCallbackDone(t) ==
    /\ At(t, "proc", "callback")
    /\ IF message_queue # <<>>
       THEN ProcTake(t)
       ELSE /\ Suspend(t, [Top(t) EXCEPT !.pc = "get"])
            /\ UNCHANGED pipeline
    /\ UNCHANGED <<client, registry, tokens, transport, now, rest, extOp, budgets>>

\* a Processor that ends when the callback raises
ProcCallbackRaisedStops(t) ==
    /\ At(t, "proc", "callback")
    /\ Top(t).n < MaxRaises
    /\ Suspend(t, [Top(t) EXCEPT !.n = @ + 1, !.i = Len(delivered), !.pc = "stopped"])
    /\ UNCHANGED <<client, registry, tokens, pipeline, transport, now, rest, extOp,
                   budgets>>

\* line 372 raised an Exception: lines 373-374 log it, line 376, the next get.
\* The frame counts the raises and keeps the index of the message that raised.
ProcCallbackRaised(t) ==
    /\ At(t, "proc", "callback")
    /\ Top(t).n < MaxRaises
    /\ LET f == [Top(t) EXCEPT !.n = @ + 1, !.i = Len(delivered)] IN
       IF message_queue # <<>>
       THEN /\ message_queue' = QueueGet(message_queue).rest
            /\ delivered' = Append(delivered, QueueGet(message_queue).msg)
            /\ Suspend(t, [f EXCEPT !.pc = "callback"])
            /\ UNCHANGED inLog
       ELSE /\ Suspend(t, [f EXCEPT !.pc = "get"])
            /\ UNCHANGED pipeline
    /\ UNCHANGED <<client, registry, tokens, transport, now, rest, extOp, budgets>>

\* line 372 raised CancelledError, which is no Exception: neither line 373 nor
\* line 378 catches it, the Processor task ends, gather (line 302) raises it
\* into start_monitoring, where line 304 does not catch it either. gather
\* leaves the Receiver task running.
ProcCallbackAborted(t) ==
    /\ At(t, "proc", "callback")
    /\ stack["orch"] # <<>> /\ Top("orch").fn = "orch" /\ Top("orch").pc = "gather"
    /\ stack' = [stack EXCEPT ![t] = <<>>,
                              !["orch"] = <<[Top("orch") EXCEPT !.pc = "failed"]>>]
    /\ cur' = "none"
    /\ UNCHANGED <<ret, client, registry, tokens, pipeline, transport, now, rest, extOp,
                   budgets>>

\* ---- start_monitoring(), lines 288-306
\* lines 296-302: both tasks are created and gathered
OrchSpawn(t) ==
    /\ stack' = [stack EXCEPT ![t] = <<[Top(t) EXCEPT !.pc = "gather"]>>,
                              !["recv"] = <<ReceiverFrame>>,
                              !["proc"] = <<ProcessorFrame>>]
    /\ cur' = "none"
    /\ ret' = [ret EXCEPT ![t] = NoResult]

OrchStart(t) ==
    /\ At(t, "orch", "start")
    /\ IF ~is_connected
       THEN Call(t, [Top(t) EXCEPT !.pc = "connected"], ConnectFrame)
       ELSE OrchSpawn(t)
    /\ UNCHANGED <<client, registry, tokens, pipeline, transport, now, rest, extOp, budgets>>

\* line 293 returned, or raised into lines 304-306
OrchConnected(t) ==
    /\ At(t, "orch", "connected")
    /\ IF ret[t].v = "raise"
       THEN Call(t, [Top(t) EXCEPT !.pc = "closed"], CloseFrame)
       ELSE OrchSpawn(t)
    /\ UNCHANGED <<client, registry, tokens, pipeline, transport, now, rest, extOp, budgets>>

\* line 306 returned: start_monitoring is over
OrchClosed(t) ==
    /\ At(t, "orch", "closed")
    /\ Suspend(t, [Top(t) EXCEPT !.pc = "done"])
    /\ UNCHANGED <<client, registry, tokens, pipeline, transport, now, rest, extOp, budgets>>

\* the task that runs start_monitoring is cancelled: CancelledError is raised
\* at the await the task is suspended in (line 293, 302 or 306) and line 304
\* does not catch it; a cancelled gather cancels both children, each at its own
\* await. The frame keeps where the Processor was.
OrchCancel(t) ==
    /\ cur = "none"
    /\ stack[t] # <<>>
    /\ stack[t][Len(stack[t])].pc \notin {"done", "failed", "cancelled"}
    /\ stack' = [stack EXCEPT
                   ![t] = <<[CancelledFrame EXCEPT
                               !.log = IF stack["proc"] = <<>> THEN <<>>
                                       ELSE <<Top("proc").pc>>]>>,
                   !["recv"] = <<>>,
                   !["proc"] = <<>>]
    /\ UNCHANGED <<cur, ret, client, registry, tokens, pipeline, transport, now, rest,
                   extOp, budgets>>

\* ---- the calls made from outside
ExtCall(c, f) ==
    /\ cur = "none"
    /\ stack[c] = <<>>
    /\ nOps < limits.ops
    /\ nOps' = nOps + 1
    /\ stack' = [stack EXCEPT ![c] = <<f>>]
    /\ ret' = [ret EXCEPT ![c] = NoResult]
    /\ cur' = c
    /\ extOp' = [extOp EXCEPT ![c] = [fn |-> f.fn, typ |-> f.typ, mk |-> f.mk]]
    /\ UNCHANGED <<client, registry, tokens, pipeline, transport, now, rest, nFaults, limits>>

\* subscribe_ticker, subscribe_orderbook, subscribe_trade, lines 145-179
ExtSubscribe(c, typ, mk) ==
    ExtCall(c, [SubscribeFrame EXCEPT
                   !.typ = typ, !.mk = mk, !.reg = subscribed_types])

ExtUnsubscribe(c, m, typ) ==
    ExtCall(c, [UnsubFrame EXCEPT
                   !.typ = typ, !.mk = <<m>>, !.reg = subscribed_types])

ExtConnect(c) == ExtCall(c, ConnectFrame)

ExtClose(c) == ExtCall(c, CloseFrame)

\* ---- the environment
\* the peer or the network ends a connection
Drop(s) ==
    /\ cur = "none"
    /\ sockState[s] = "open"
    /\ nFaults < limits.faults
    /\ nFaults' = nFaults + 1
    /\ sockState' = [sockState EXCEPT ![s] = "closed"]
    /\ UNCHANGED <<client, registry, tokens, pipeline, lastSent, now, rest, stack, ret, cur,
                   extOp, nOps, limits>>

Tick ==
    /\ cur = "none"
    /\ now < MaxTime
    /\ now' = now + 1
    /\ UNCHANGED <<client, registry, tokens, pipeline, transport, stack, ret, cur,
                   extOp, budgets, rest>>

\* _ensure_auth called on its own, lines 65-92 (it has no await: one step)
GetToken(c, db) ==
    LET ea == EnsureAuthWith(auth, store, now, nSaves, db) IN
    /\ cur = "none"
    /\ nOps < limits.ops
    /\ nOps' = nOps + 1
    /\ auth' = ea.auth
    /\ store' = ea.store
    /\ nSaves' = ea.nSaves
    /\ authOut' = [authOut EXCEPT ![c] =
                       [res |-> ea.res, tok |-> ea.tok,
                        fresh |-> ~ValidToken(auth, store, now),
                        conc |-> FALSE, db |-> db]]
    /\ extOp' = [extOp EXCEPT ![c] = [fn |-> "ensure_auth", typ |-> "-", mk |-> <<>>]]
    /\ UNCHANGED <<client, registry, pipeline, transport, now, rest, stack, ret, cur,
                   nFaults, limits>>

\* datetime.now() moves on
TokenTick ==
    /\ cur = "none"
    /\ now < TokenTime
    /\ now' = now + 1
    /\ UNCHANGED <<client, registry, tokens, pipeline, transport, stack, ret, cur,
                   extOp, budgets, rest>>

\* ---- the system
StoredTokens == {NoToken, [tok |-> "stored", exp |-> MaxTime]}

InitClient ==
    /\ websocket = None
    /\ is_connected = FALSE
    /\ subscribed_markets = {}
    /\ subscribed_types = <<>>
    /\ auth = NoToken
    /\ message_queue = <<>>
    /\ sockState = [s \in Sockets |-> "unused"]
    /\ lastSent = Sent(None, NoMsg)
    /\ store \in StoredTokens
    /\ now = 0
    /\ ret = [t \in Tasks |-> NoResult]
    /\ cur = "none"
    /\ extOp = [c \in Callers |-> [fn |-> "none", typ |-> "-", mk |-> <<>>]]
    /\ inLog = <<>>
    /\ delivered = <<>>
    /\ nFaults = 0
    /\ authOut = [t \in Tasks |-> NoAuthOut]
    /\ nOps = 0
    /\ nSaves = 0
    /\ request = NoRequest
    /\ orders = <<>>

\* a client on which start_monitoring is about to run
Init ==
    /\ InitClient
    /\ stack = [t \in Tasks |-> IF t = "orch" THEN <<OrchFrame>> ELSE <<>>]
    /\ limits = [ops |-> MaxOps, faults |-> MaxFaults, frames |-> MaxFrames]

\* a client whose methods are called without start_monitoring
InitApi ==
    /\ InitClient
    /\ stack = [t \in Tasks |-> <<>>]
    /\ limits = [ops |-> ApiOps, faults |-> ApiFaults, frames |-> 0]

\* a client on which two callers subscribe at the same time
InitAuth ==
    /\ InitClient
    /\ stack = [t \in Tasks |-> <<>>]
    /\ limits = [ops |-> AuthOps, faults |-> 0, frames |-> 0]

\* a client on which two callers call connect() and close() at the same time
InitPair ==
    /\ InitClient
    /\ stack = [t \in Tasks |-> <<>>]
    /\ limits = [ops |-> PairOps, faults |-> PairFaults, frames |-> 0]

ClientNext ==
    \/ \E t \in Tasks : ConnectStart(t)
    \/ \E t \in Tasks : ConnectStaleClosed(t)
    \/ \E t \in Tasks : ConnectOpened(t)
    \/ \E t \in Tasks : ConnectOpenFailed(t)
    \/ \E t \in Tasks : ConnectResubbed(t)
    \/ \E t \in Tasks : CloseStart(t)
    \/ \E t \in Tasks : CloseDone(t)
    \/ \E t \in Tasks : SubscribeStart(t)
    \/ \E t \in Tasks : SubscribeConnected(t)
    \/ \E t \in Tasks : SubscribeSent(t)
    \/ \E t \in Tasks : ResubStart(t)
    \/ \E t \in Tasks : ResubCalled(t)
    \/ \E t \in Tasks : ResubDone(t)

UnsubNext ==
    \/ \E t \in Tasks : UnsubStart(t)
    \/ \E t \in Tasks : UnsubClosed(t)
    \/ \E t \in Tasks : UnsubConnected(t)
    \/ \E t \in Tasks : UnsubResubbed(t)

MonitorNext ==
    \/ RecvLoop("recv")
    \/ RecvConnected("recv")
    \/ RecvFailed("recv")
    \/ \E k \in FrameKinds : RecvFrame("recv", k)
    \/ RecvPonged("recv")
    \/ RecvWake("recv")
    \/ ProcGet("proc")
    \/ ProcCallbackDone("proc")
    \/ OrchStart("orch")
    \/ OrchConnected("orch")
    \/ OrchClosed("orch")

ExtNext ==
    \/ \E typ \in TypeNames, mk \in MarketLists : ExtSubscribe("ext", typ, mk)
    \/ ExtConnect("ext")
    \/ ExtClose("ext")

ExtUnsubNext ==
    \E m \in Markets, typ \in TypeNames \cup {"all"} : ExtUnsubscribe("ext", m, typ)

EnvNext ==
    \/ \E s \in Sockets : Drop(s)
    \/ Tick

\* the monitored client, with subscribe, connect and close called from outside
Next == ClientNext \/ MonitorNext \/ ExtNext \/ EnvNext

\* every public method called from outside, one call at a time, no monitoring
NextApi == ClientNext \/ UnsubNext \/ ExtNext \/ ExtUnsubNext \/ EnvNext

NextAuth ==
    \/ \E c \in Callers, typ \in TypeNames, mk \in MarketLists : ExtSubscribe(c, typ, mk)
    \/ \E t \in Callers : ConnectStart(t)
    \/ \E t \in Callers : ConnectOpened(t)
    \/ \E t \in Callers : ConnectResubbed(t)
    \/ \E t \in Callers : SubscribeStart(t)
    \/ \E t \in Callers : SubscribeConnected(t)
    \/ \E t \in Callers : SubscribeSent(t)
    \/ \E t \in Callers : ResubStart(t)
    \/ \E t \in Callers : ResubCalled(t)
    \/ \E t \in Callers : ResubDone(t)
    \/ Tick

NextPair ==
    \/ \E c \in Callers : ExtConnect(c)
    \/ \E c \in Callers : ExtClose(c)
    \/ \E t \in Callers : ConnectStart(t)
    \/ \E t \in Callers : ConnectStaleClosed(t)
    \/ \E t \in Callers : ConnectOpened(t)
    \/ \E t \in Callers : ConnectOpenFailed(t)
    \/ \E t \in Callers : CloseStart(t)
    \/ \E t \in Callers : CloseDone(t)
    \/ \E s \in Sockets : Drop(s)

Spec == Init /\ [][Next]_vars

SpecApi == InitApi /\ [][NextApi]_vars

SpecAuth == InitAuth /\ [][NextAuth]_vars

SpecPair == InitPair /\ [][NextPair]_vars

\* start_monitoring alone: nothing is called from outside, the callback may
\* raise, and the orchestrating task may be cancelled
InitLoops ==
    /\ InitClient
    /\ stack = [t \in Tasks |-> IF t = "orch" THEN <<OrchFrame>> ELSE <<>>]
    /\ limits = [ops |-> 0, faults |-> LoopFaults, frames |-> LoopFrames]

NextLoops ==
    \/ \E t \in {"orch", "recv"} :
          \/ ConnectStart(t)
          \/ ConnectOpened(t)
          \/ ConnectOpenFailed(t)
    \/ CloseStart("orch")
    \/ MonitorNext
    \/ RecvFrame("recv", PingData)
    \/ ProcCallbackRaised("proc")
    \/ ProcCallbackAborted("proc")
    \/ OrchCancel("orch")
    \/ \E s \in Sockets : Drop(s)

SpecLoops == InitLoops /\ [][NextLoops]_vars

(***************************************************************************)
(* Properties                                                              *)
(***************************************************************************)
IsPrefix(a, b) == Len(a) <= Len(b) /\ \A k \in 1..Len(a) : a[k] = b[k]
KeysOf(d) == {d[k].market : k \in 1..Len(d)}
\* the markets registered under one type in the dict d
RegisteredFor(d, typ) == {d[k].market : k \in {j \in 1..Len(d) : InSeq(typ, d[j].types)}}
NoDuplicates(s) == \A j, k \in 1..Len(s) : s[j] = s[k] => j = k
Without(d, m) == SelectSeq(d, LAMBDA e : e.market # m)

\* the frames of a log that are no keepalive and decode, decoded, in order
RECURSIVE DecodedOf(_)
DecodedOf(log) ==
    IF log = <<>> THEN <<>>
    ELSE (IF IsPing(Head(log)) \/ Decode(Head(log)) = <<"JSONDecodeError">>
          THEN <<>>
          ELSE <<Decode(Head(log))>>) \o DecodedOf(Tail(log))

RecvStack == stack["recv"]
RecvMoves == stack'["recv"] # stack["recv"]
RecvIdleAt(pc) == Len(RecvStack) = 1 /\ Head(RecvStack).fn = "recv" /\ Head(RecvStack).pc = pc

C2_ReadFailureStep ==
    (RecvIdleAt("recv") /\ RecvMoves /\ sockState[Head(RecvStack).sock] # "open")
        => /\ is_connected' = FALSE
           /\ websocket' = None
           /\ registry' = registry
           /\ Len(stack'["recv"]) = 1
           /\ Head(stack'["recv"]).fn = "recv"
           /\ Head(stack'["recv"]).pc = "sleep"

C2_NextIterationStep ==
    /\ (RecvIdleAt("sleep") /\ RecvMoves)
           => /\ Len(stack'["recv"]) = 1
              /\ Head(stack'["recv"]).pc = "loop"
              /\ UNCHANGED <<client, registry>>
    /\ (RecvIdleAt("loop") /\ RecvMoves /\ (~is_connected \/ websocket = None))
           => /\ Len(stack'["recv"]) = 2
              /\ Head(stack'["recv"]).fn = "connect"
              /\ Head(stack'["recv"]).pc = "start"
              /\ UNCHANGED registry

C2_ConnectRestoresStep ==
    (/\ RecvStack # <<>>
     /\ Head(RecvStack).fn = "connect"
     /\ Head(RecvStack).pc = "opening"
     /\ RecvMoves
     /\ is_connected'
     /\ subscribed_markets # {})
        => /\ Head(stack'["recv"]).fn = "resub"
           /\ Head(stack'["recv"]).pc = "start"
           /\ UNCHANGED registry

C2_ReceiverStaysStep ==
    RecvStack # <<>>
        => /\ stack'["recv"] # <<>>
           /\ stack'["recv"][Len(stack'["recv"])].fn = "recv"

\* the Receiver's reconnect has reached resubscribe_all() and nothing was called
\* from outside since the read failed
C2_Recovering ==
    /\ Len(RecvStack) = 3
    /\ RecvStack[1].fn = "resub"
    /\ RecvStack[1].pc = "start"
    /\ RecvStack[2].fn = "connect"
    /\ RecvStack[3].log = <<"failed">>
    /\ RecvStack[3].stable
    /\ RecvStack[3].n = nOps
    /\ CallersIdle

C2_Reconnect ==
    /\ [][/\ C2_ReadFailureStep
          /\ C2_NextIterationStep
          /\ C2_ConnectRestoresStep
          /\ C2_ReceiverStaysStep]_vars
    /\ [](C2_Recovering => /\ subscribed_types = RecvStack[3].reg
                           /\ subscribed_markets = KeysOf(RecvStack[3].reg)
                           /\ is_connected)

C2_Witness == C2_Recovering /\ subscribed_types # <<>> /\ nFaults > 0

\* ---- C3
ResubEnded(f) == f.fn = "resub" /\ f.pc = "done"
CallsFor(f, typ) == {k \in 1..Len(f.log) : f.log[k].att[1] = typ}
FramesFor(f, typ) ==
    {k \in 1..Len(f.log) : f.log[k].msg # NoMsg /\ f.log[k].msg[1] = typ}

\* C3 as the specification states it: a finished resubscribe_all() has emitted
\* exactly one frame for each type that has markets, with exactly the markets
\* registered under the type, none for a type without markets, none twice.
\* It is taken where a token that has not expired is at hand, so that no token
\* lookup of the invocation can have failed.
C3_OneFramePerType ==
    \A t \in Tasks : \A p \in 1..Len(stack[t]) :
        LET f == stack[t][p] IN
        (ResubEnded(f) /\ ValidToken(auth, store, now)) =>
            \A typ \in TypeNames :
                LET ms == RegisteredFor(f.reg, typ) IN
                /\ ms = {} => FramesFor(f, typ) = {}
                /\ ms # {} => /\ Cardinality(FramesFor(f, typ)) = 1
                              /\ \A k \in FramesFor(f, typ) :
                                     /\ SeqToSet(f.log[k].msg[2]) = ms
                                     /\ NoDuplicates(f.log[k].msg[2])

\* C3, amended: a finished resubscribe_all() has called _subscribe exactly once
\* for each type that has markets, with exactly the markets registered under the
\* type and none twice, and not at all for a type without markets; each call
\* has emitted at most one frame, the frame of its arguments, and none when the
\* token lookup or the send failed.
C3_OneCallPerType ==
    \A t \in Tasks : \A p \in 1..Len(stack[t]) :
        LET f == stack[t][p] IN
        ResubEnded(f) =>
            /\ \A typ \in TypeNames :
                   LET ms == RegisteredFor(f.reg, typ) IN
                   /\ ms = {} => CallsFor(f, typ) = {}
                   /\ ms # {} => /\ Cardinality(CallsFor(f, typ)) = 1
                                 /\ \A k \in CallsFor(f, typ) :
                                        /\ SeqToSet(f.log[k].att[2]) = ms
                                        /\ NoDuplicates(f.log[k].att[2])
            /\ \A k \in 1..Len(f.log) :
                   f.log[k].msg \in {NoMsg, SubscribeMessage(f.log[k].att[1], f.log[k].att[2])}
            /\ \A j, k \in 1..Len(f.log) : j < k =>
                   \E a, b \in 1..Len(TYPES) :
                       a < b /\ TYPES[a] = f.log[j].att[1] /\ TYPES[b] = f.log[k].att[1]

\* a resubscribe_all() that ended after two frames for two types, one of them
\* with both markets
C3_Witness ==
    \E p \in 1..Len(stack["ext"]) :
        LET f == stack["ext"][p] IN
        /\ ResubEnded(f)
        /\ Len(f.log) = 2
        /\ \A k \in 1..2 : f.log[k].msg # NoMsg
        /\ \E k \in 1..2 : Len(f.log[k].msg[2]) = 2

\* ---- C4
\* C4: when two subscribe calls are in flight together and the first token
\* lookup finds no valid token in memory or in the store, the store is written
\* at most once and both lookups return the same token.
C4_SingleFlight ==
    (/\ \A c \in Callers : authOut[c].res # "none"
     /\ \E c \in Callers : authOut[c].fresh /\ authOut[c].conc)
        => /\ nSaves <= 1
           /\ \A c, d \in Callers :
                  /\ authOut[c].res = "ok"
                  /\ authOut[c].tok = authOut[d].tok

\* ---- C5
\* C5: connect() called while self.websocket is an open socket and the client is
\* Connected returns at once: no socket is closed or opened, no frame is sent,
\* the connection state and the registry stay as they are.
C5_ConnectIdempotent ==
    [][\A t \in Tasks :
          (/\ stack[t] # <<>>
           /\ Top(t).fn = "connect"
           /\ Top(t).pc = "start"
           /\ stack'[t] # stack[t]
           /\ Healthy
           /\ is_connected)
              => /\ stack'[t] = Tail(stack[t])
                 /\ ret'[t].v = "ok"
                 /\ UNCHANGED <<client, registry, transport>>]_vars

\* connect() was called from outside and returned on the connection a subscribe
\* frame went out on earlier, the only socket ever opened
C5_Witness ==
    /\ extOp["ext"].fn = "connect"
    /\ stack["ext"] = <<>>
    /\ ret["ext"].v = "ok"
    /\ nOps >= 2
    /\ nFaults = 0
    /\ Healthy
    /\ is_connected
    /\ websocket = 1
    /\ lastSent.sock = 1
    /\ lastSent.msg # NoMsg
    /\ \A s \in Sockets : s # 1 => sockState[s] = "unused"
    /\ subscribed_types # <<>>

\* ---- C6
UnsubReturns(t) ==
    /\ stack[t] # <<>>
    /\ Top(t).fn = "unsub"
    /\ stack'[t] = Tail(stack[t])

\* C6: when unsubscribe(market) without a type returns, the market is in neither
\* subscribed_markets nor subscribed_types, under no type, and the registry is
\* what it was before the call without the market: a subscribe of the market
\* followed by unsubscribe(market) leaves the registry as if the market had
\* never been subscribed.
C6_UnsubscribeAllTypes ==
    [][\A t \in Tasks :
          (UnsubReturns(t) /\ Top(t).typ = "all")
              => LET m == Top(t).mk[1] IN
                 /\ m \notin subscribed_markets'
                 /\ m \notin KeysOf(subscribed_types')
                 /\ \A typ \in TypeNames : m \notin RegisteredFor(subscribed_types', typ)
                 /\ subscribed_types' = Without(Top(t).reg, m)
                 /\ subscribed_markets' = KeysOf(Top(t).reg) \ {m}]_vars

\* subscribe of a market on an empty registry, then unsubscribe of the market:
\* the registry is empty again
C6_Witness ==
    /\ extOp["ext"].fn = "unsub"
    /\ extOp["ext"].typ = "all"
    /\ stack["ext"] = <<>>
    /\ ret["ext"].v = "true"
    /\ nOps = 2
    /\ subscribed_types = <<>>
    /\ subscribed_markets = {}
    /\ lastSent.msg # NoMsg

\* ---- C7
LastRead == inLog'[Len(inLog')]
FrameRead(kind) == Len(inLog') = Len(inLog) + 1 /\ LastRead.kind = kind

UnsubActive(t) ==
    /\ stack[t] # <<>>
    /\ stack[t][Len(stack[t])].fn = "unsub"
    /\ stack[t][Len(stack[t])].pc # "start"

Lists(msg, m, typ) ==
    /\ msg # NoMsg
    /\ msg[1] \in TypeNames
    /\ typ \in {"all", msg[1]}
    /\ InSeq(m, msg[2])

\* C8 as the specification states it: every unsubscribe of a registered market
\* has called close(), connect() and resubscribe_all(), in this order, when it
\* returns.
C8_AlwaysAllThree ==
    [][\A t \in Tasks :
          (UnsubReturns(t) /\ Top(t).pc # "start")
              => Top(t).log = <<"close", "connect", "resub">>]_vars

\* C8, amended: an unsubscribe of a registered market calls close(), then
\* connect(), and then resubscribe_all(), unless connect() raised, in which
\* case it returns failure without calling resubscribe_all(); no frame sent
\* while it runs lists the removed market under the removed type.
C8_ReconnectAndResubscribe ==
    [][\A t \in Tasks :
          /\ (UnsubReturns(t) /\ Top(t).pc # "start")
                 => \/ /\ Top(t).log = <<"close", "connect", "resub">>
                       /\ Top(t).pc = "resubbed"
                       /\ ret'[t].v = IF ret[t].v = "raise" THEN "false" ELSE "true"
                    \/ /\ Top(t).log = <<"close", "connect">>
                       /\ Top(t).pc = "connected"
                       /\ ret[t].v = "raise"
                       /\ ret'[t].v = "false"
          /\ (UnsubActive(t) /\ lastSent' # lastSent)
                 => LET u == stack[t][Len(stack[t])] IN
                    ~Lists(lastSent'.msg, u.mk[1], u.typ)]_vars

\* an unsubscribe returned success after frames went out on a new connection for
\* what is still registered
C8_Witness ==
    /\ extOp["ext"].fn = "unsub"
    /\ stack["ext"] = <<>>
    /\ ret["ext"].v = "true"
    /\ subscribed_types # <<>>
    /\ Healthy
    /\ websocket >= 2
    /\ lastSent.sock = websocket
    /\ lastSent.msg # NoMsg

\* ---- C9
\* C9: the frame a successful subscribe call has sent lists every market that
\* is registered under the call's type after the call.
C9_FrameListsFullSet ==
    \A c \in Callers :
        (/\ stack[c] = <<>>
         /\ extOp[c].fn = "subscribe"
         /\ ret[c].v = "true")
            => SeqToSet(ret[c].msg[2]) = RegisteredFor(subscribed_types, extOp[c].typ)

\* ---- C10
\* C10: a subscribe call never raises: it ends with True or False, and with the
\* client Disconnected when it ends with False.
C10_SubscribeNeverRaises ==
    \A c \in Callers :
        (stack[c] = <<>> /\ extOp[c].fn = "subscribe")
            => /\ ret[c].v \in {"true", "false"}
               /\ ret[c].v = "false" => ~is_connected

\* ---- C11
\* a subscribe call made from outside returns True or False after a token lookup
\* that succeeded: the call went as far as the send of its frame
SubscribeReturnsAfterSend(c) ==
    /\ Len(stack[c]) = 1
    /\ Top(c).fn = "subscribe"
    /\ stack'[c] = <<>>
    /\ ret'[c].v \in {"true", "false"}
    /\ authOut'[c].res = "ok"

\* C11: when a subscribe call returns, with success or after a send that
\* failed, every market of the call is registered under the call's type and
\* every (market, type) pair registered before the call is registered still.
C11_RegisteredWhateverTheSend ==
    [][\A c \in Callers :
          SubscribeReturnsAfterSend(c)
              => /\ SeqToSet(Top(c).mk) \subseteq RegisteredFor(subscribed_types', Top(c).typ)
                 /\ \A typ \in TypeNames :
                        RegisteredFor(Top(c).reg, typ) \subseteq RegisteredFor(subscribed_types', typ)]_vars

\* ---- C14
\* the handshake of a connect() fails
OpenFails(t) ==
    /\ stack[t] # <<>>
    /\ Top(t).fn = "connect"
    /\ Top(t).pc = "opening"
    /\ stack'[t] # stack[t]
    /\ nFaults' = nFaults + 1

\* C14: when opening the socket fails, connect() ends there: the client is
\* Disconnected with no socket handle, the failure is raised to the caller, and
\* no socket has been opened and nothing sent.
C14_OpenFailureSurfaces ==
    [][\A t \in Tasks :
          OpenFails(t)
              => /\ is_connected' = FALSE
                 /\ websocket' = None
                 /\ stack'[t] = Tail(stack[t])
                 /\ ret'[t].v = "raise"
                 /\ UNCHANGED <<transport, registry>>]_vars

\* a connect() called from outside on a client with registered markets has
\* raised, and no socket is open
C14_Witness ==
    /\ extOp["ext"].fn = "connect"
    /\ stack["ext"] = <<>>
    /\ ret["ext"].v = "raise"
    /\ nFaults = 1
    /\ subscribed_types # <<>>
    /\ ~is_connected
    /\ websocket = None
    /\ \A s \in Sockets : sockState[s] # "open"

\* ---- C13
\* start_monitoring has left its try block: it is closing the connection in the
\* handler of lines 304-306, or is over
MonitoringEnded ==
    /\ stack["orch"] # <<>>
    /\ stack["orch"][Len(stack["orch"])].pc \in {"closed", "done"}

\* C13: no failed connect, read or send ends the monitoring, from the first
\* connect attempt of start_monitoring on: a failed attempt is followed by a
\* wait and another attempt, never by the end of start_monitoring.
C13_MonitoringSurvives == ~MonitoringEnded

\* ---- C15
\* C15: when close() returns the client is Disconnected, whatever its state
\* was when close() was called and whatever another task is doing, a connect()
\* in progress included.
C15_ClosedMeansDisconnected ==
    [][\A t \in Tasks :
          (/\ stack[t] # <<>>
           /\ Top(t).fn = "close"
           /\ stack'[t] = Tail(stack[t]))
              => ~is_connected']_vars

\* ---- C16
Cancelled == stack["orch"] # <<>> /\ Top("orch").pc = "cancelled"
NoOpenSocket == \A s \in Sockets : sockState[s] # "open"

\* C16: once the task running start_monitoring has been cancelled, the
\* Receiver and the Processor have stopped, no socket is open and the client
\* is Disconnected.
C16_CancelStopsAndCloses ==
    Cancelled => /\ stack["recv"] = <<>>
                 /\ stack["proc"] = <<>>
                 /\ NoOpenSocket
                 /\ ~is_connected

\* ---- C17
\* C17: a cancellation never finds the Processor inside the callback and ends
\* it there: a callback that has started runs to its end.
C17_CallbackNotInterrupted ==
    Cancelled => Top("orch").log # <<"callback">>

\* ---- C18
LoopFailed == stack["orch"] # <<>> /\ Top("orch").pc = "failed"

\* C18: when the Receiver or the Processor has ended with a failure nothing
\* caught, the connection is closed and the other loop has stopped.
C18_FailureClosesAndStops ==
    LoopFailed => /\ stack["recv"] = <<>>
                  /\ stack["proc"] = <<>>
                  /\ NoOpenSocket
                  /\ ~is_connected

\* ---- C19
\* the callback raised an exception
CallbackRaised ==
    /\ stack["proc"] # <<>>
    /\ stack'["proc"] # <<>>
    /\ Head(stack'["proc"]).n = Top("proc").n + 1

C20_OnlyPingsArePonged ==
    [][/\ FrameRead("ping")
            => /\ message_queue' = message_queue
               /\ Head(stack'["recv"]).pc = "ponging"
               /\ Head(stack'["recv"]).sock = LastRead.sock
       /\ (RecvIdleAt("ponging") /\ RecvMoves /\ sockState[Head(RecvStack).sock] = "open")
            => lastSent' = Sent(Head(RecvStack).sock, PONG)
       /\ \A kind \in {"data", "bad", PingData} :
             FrameRead(kind) => Head(stack'["recv"]).pc # "ponging"
       /\ \A kind \in {"data", PingData} :
             FrameRead(kind)
                => message_queue' = Append(message_queue, <<"msg", LastRead.id>>)]_vars

\* ---- C12
\* the monitored client with a peer that sends nothing, subscribed to from
\* outside; every task that can take a step of its own code takes one in the
\* end, and a handshake that can succeed does
InitFair ==
    /\ InitClient
    /\ stack = [t \in Tasks |-> IF t = "orch" THEN <<OrchFrame>> ELSE <<>>]
    /\ limits = [ops |-> FairOps, faults |-> FairFaults, frames |-> 0]

FairTasks == {"orch", "recv", "ext"}

TaskStep(t) ==
    \/ ConnectStart(t)
    \/ ConnectOpened(t)
    \/ ConnectResubbed(t)
    \/ CloseStart(t)
    \/ SubscribeStart(t)
    \/ SubscribeConnected(t)
    \/ SubscribeSent(t)
    \/ ResubStart(t)
    \/ ResubCalled(t)
    \/ ResubDone(t)
    \/ RecvLoop(t)
    \/ RecvConnected(t)
    \/ RecvFailed(t)
    \/ RecvWake(t)
    \/ OrchStart(t)
    \/ OrchConnected(t)
    \/ OrchClosed(t)

NextFair ==
    \/ \E t \in FairTasks : TaskStep(t)
    \/ \E t \in FairTasks : ConnectOpenFailed(t)
    \/ \E typ \in TypeNames, mk \in MarketLists : ExtSubscribe("ext", typ, mk)
    \/ \E s \in Sockets : Drop(s)

SpecFair ==
    /\ InitFair
    /\ [][NextFair]_vars
    /\ \A t \in FairTasks : WF_vars(TaskStep(t))

\* a subscribe from outside has returned False because its send failed, and
\* monitoring is running
SendFailedMonitoring ==
    /\ extOp["ext"].fn = "subscribe"
    /\ stack["ext"] = <<>>
    /\ ret["ext"].v = "false"
    /\ authOut["ext"].res = "ok"
    /\ ~is_connected
    /\ websocket = None
    /\ stack["orch"] # <<>>
    /\ Top("orch").pc = "gather"
    /\ RecvStack # <<>>

\* the Receiver's connect() has opened a connection and gone on to
\* resubscribe_all() with the whole registry (nothing to replay when it is empty)
ReceiverReplays ==
    \/ \E p \in 1..Len(RecvStack) :
          /\ RecvStack[p].fn = "resub"
          /\ RecvStack[p].pc # "start"
          /\ RecvStack[p].reg = subscribed_types
    \/ /\ subscribed_types = <<>>
       /\ RecvIdleAt("connected")
       /\ ret["recv"].v = "ok"

\* a later call from outside has opened a connection of its own
RestoredFromOutside == is_connected /\ Healthy

\* C12: after a subscribe whose send failed while monitoring runs, the Receiver
\* in the end calls connect() and then resubscribe_all() with the whole
\* registry, also when the socket it was reading never delivers anything
\* again. A run in which a later call from outside restores the connection
\* before the Receiver does is not held against the statement.
C12_ReceiverRecovers ==
    SendFailedMonitoring ~> (ReceiverReplays \/ RestoredFromOutside)

\* ---- the token alone: what the table holds when the client starts is any row
\* with an expiry on the clock's range, or none
TokenRows == {NoToken} \cup {[tok |-> "stored", exp |-> e] : e \in 1..TokenTime}

InitToken ==
    /\ websocket = None
    /\ is_connected = FALSE
    /\ subscribed_markets = {}
    /\ subscribed_types = <<>>
    /\ auth = NoToken
    /\ message_queue = <<>>
    /\ sockState = [s \in Sockets |-> "unused"]
    /\ lastSent = Sent(None, NoMsg)
    /\ store \in TokenRows
    /\ now = 0
    /\ ret = [t \in Tasks |-> NoResult]
    /\ cur = "none"
    /\ extOp = [c \in Callers |-> [fn |-> "none", typ |-> "-", mk |-> <<>>]]
    /\ inLog = <<>>
    /\ delivered = <<>>
    /\ nFaults = 0
    /\ authOut = [t \in Tasks |-> NoAuthOut]
    /\ nOps = 0
    /\ nSaves = 0
    /\ request = NoRequest
    /\ orders = <<>>
    /\ stack = [t \in Tasks |-> <<>>]
    /\ limits = [ops |-> TokenOps, faults |-> 0, frames |-> 0]

NextToken ==
    \/ \E db \in StoreModes : GetToken("ext", db)
    \/ TokenTick

SpecToken == InitToken /\ [][NextToken]_vars

\* _ensure_auth has just been called
TokenCalled == nOps' = nOps + 1
TokenOut == authOut'["ext"]

\* ---- C21
\* C21: a call of _ensure_auth made while the database fails, on a query or
\* because it cannot be reached, still returns a token, which is the one in
\* memory and has not expired.
C21_StoreFailureTolerated ==
    [][(TokenCalled /\ TokenOut.db # "ok")
          => /\ TokenOut.res = "ok"
             /\ TokenOut.tok = auth'.tok
             /\ auth'.tok # "none"
             /\ now < auth'.exp]_vars

\* ---- C22
\* C22: a token _ensure_auth returns is the one then in memory and its expiry
\* is later than the time of the return, whether it was in memory before the
\* call or came from the table; with an expired token only, none is returned.
C22_NoExpiredToken ==
    [][(TokenCalled /\ TokenOut.res = "ok")
          => /\ TokenOut.tok # "none"
             /\ TokenOut.tok = auth'.tok
             /\ now' < auth'.exp
             /\ \/ auth' = auth /\ auth.tok # "none" /\ now < auth.exp
                \/ auth' = store /\ store.tok # "none" /\ now < store.exp]_vars

\* the token read from the table at time 1 is returned from memory at time 2,
\* one tick before it expires
C22_Witness ==
    /\ extOp["ext"].fn = "ensure_auth"
    /\ nOps >= 2
    /\ now = 2
    /\ authOut["ext"].res = "ok"
    /\ ~authOut["ext"].fresh
    /\ authOut["ext"].tok = "stored"
    /\ auth = [tok |-> "stored", exp |-> 3]
    /\ store = auth

\* ---- C23
\* C23: called with no unexpired token in memory or in the table, and the
\* database answering, _ensure_auth returns a newly made token that is then in
\* memory and in the table with the expiry now + TOKEN_REFRESH_INTERVAL.
C23_MintsWhenNoneValid ==
    [][(TokenCalled /\ TokenOut.db = "ok" /\ ~ValidToken(auth, store, now))
          => /\ TokenOut.res = "ok"
             /\ TokenOut.tok \notin {"none", auth.tok, store.tok}
             /\ auth' = [tok |-> TokenOut.tok, exp |-> now + TOKEN_REFRESH_INTERVAL]
             /\ store' = auth'
             /\ nSaves' = nSaves + 1]_vars

\* ---- C24
\* a resubscribe_all() between its first read of the registry and its return
ResubInProgress(f) == f.fn = "resub" /\ f.pc = "called"

\* C24: while a resubscribe_all() is in progress the registry is the one its
\* first read found: no subscribe or unsubscribe of another task changes it.
C24_RegistryLocked ==
    \A t \in Tasks : \A p \in 1..Len(stack[t]) :
        ResubInProgress(stack[t][p]) => subscribed_types = stack[t][p].reg

\* ---- C25
\* the market m has an entry before the step and none after it
EntryRemoved(m) == m \in KeysOf(subscribed_types) /\ m \notin KeysOf(subscribed_types')

\* task t takes the step of unsubscribe that changes the registry (lines
\* 246-256), for market m, and no type of m is left after it
LastTypeUnsubscribed(t, m) ==
    /\ stack[t] # <<>>
    /\ Top(t).fn = "unsub"
    /\ Top(t).pc = "start"
    /\ stack'[t] # stack[t]
    /\ Top(t).mk = <<m>>
    /\ m \in subscribed_markets
    /\ \/ Top(t).typ = "all"
       \/ SeqToSet(DictGet(subscribed_types, m)) = {Top(t).typ}

\* C25: the set of subscribed markets is the set of markets with an entry in
\* the dict, every entry's list of types is non-empty, without duplicates and
\* made of ticker, orderbook and trade, no market has two entries; and an entry
\* goes exactly in the step of an unsubscribe that takes its last type.
C25_RegistryConsistent ==
    /\ [](/\ subscribed_markets = KeysOf(subscribed_types)
          /\ \A j, k \in 1..Len(subscribed_types) :
                subscribed_types[j].market = subscribed_types[k].market => j = k
          /\ \A k \in 1..Len(subscribed_types) :
                /\ subscribed_types[k].types # <<>>
                /\ NoDuplicates(subscribed_types[k].types)
                /\ SeqToSet(subscribed_types[k].types) \subseteq TypeNames)
    /\ [][\A m \in Markets :
             EntryRemoved(m) <=> \E t \in Tasks : LastTypeUnsubscribed(t, m)]_vars

\* KRW-BTC was subscribed for ticker and for trade and then unsubscribed for
\* ticker: its entry stays, with trade
C25_Witness ==
    /\ extOp["ext"].fn = "unsub"
    /\ extOp["ext"].typ = "ticker"
    /\ stack["ext"] = <<>>
    /\ nOps = 3
    /\ subscribed_types = <<[market |-> "KRW-BTC", types |-> <<"trade">>]>>
    /\ subscribed_markets = {"KRW-BTC"}

\* ---- C26
\* C26: every open socket is the one the client's handle names, so at most one
\* is open; and the handle is changed or cleared while it names an open socket
\* only by a step that closes that socket.
C26_HandleOwnsSocket ==
    /\ [](\A s \in Sockets : sockState[s] = "open" => websocket = s)
    /\ [][(websocket # None /\ sockState[websocket] = "open" /\ websocket' # websocket)
             => sockState'[websocket] = "closed"]_vars

\* ---- C27
\* task t's connect() returns without raising
ConnectReturnsOk(t) ==
    /\ stack[t] # <<>>
    /\ Top(t).fn = "connect"
    /\ stack'[t] = Tail(stack[t])
    /\ ret'[t].v = "ok"

\* C27: when connect() returns without raising the client is connected and
\* its handle names a socket, also when resubscribe_all() ran inside the
\* call. It is taken where a token that has not expired is at hand, so that no
\* token lookup inside the call can have failed; that the peer may have
\* dropped the socket the handle names is not held against the call.
C27_ConnectedOnReturn ==
    [][\A t \in Tasks :
          (ConnectReturnsOk(t) /\ ValidToken(auth, store, now))
             => /\ is_connected'
                /\ websocket' # None
                /\ sockState'[websocket'] # "unused"]_vars

\* ---- C28
\* a client with a token in the table whose methods subscribe and connect are
\* called one at a time while connections are dropped
InitChain ==
    /\ InitClient
    /\ store # NoToken
    /\ stack = [t \in Tasks |-> <<>>]
    /\ limits = [ops |-> ChainOps, faults |-> ChainFaults, frames |-> 0]

NextChain ==
    \/ ConnectStart("ext")
    \/ ConnectStaleClosed("ext")
    \/ ConnectOpened("ext")
    \/ ConnectOpenFailed("ext")
    \/ ConnectResubbed("ext")
    \/ SubscribeStart("ext")
    \/ SubscribeConnected("ext")
    \/ SubscribeSent("ext")
    \/ ResubStart("ext")
    \/ ResubCalled("ext")
    \/ ResubDone("ext")
    \/ \E typ \in TypeNames : ExtSubscribe("ext", typ, <<"KRW-BTC">>)
    \/ ExtConnect("ext")
    \/ \E s \in Sockets : Drop(s)

SpecChain == InitChain /\ [][NextChain]_vars

\* the calls of connect() a task is inside of
ConnectDepth(t) == Cardinality({p \in 1..Len(stack[t]) : stack[t][p].fn = "connect"})

\* C28: the chain connect -> resubscribe_all -> _subscribe -> connect ends
\* there: whatever the sends and the handshakes do, no task is ever inside more
\* than these two calls of connect() at once.
C28_ChainBounded == \A t \in Tasks : ConnectDepth(t) <= 2

\* ---- UpbitAPI: place_order and the retries of _request
MAX_RETRIES == 3
OrderOps == 2
Sides == {"bid", "ask"}

\* the order the exchange books for the data place_order posts (lines 158-169:
\* market, side, volume, price, ord_type and nothing that tells one POST of a
\* call from the next)
Order(r) == [call |-> r.call, side |-> r.side]

\* _request, lines 106-112: a RequestException sends the same request again
\* while retry < MAX_RETRIES (time.sleep only delays it), and returns None after
RequestFailed(r, how) ==
    IF r.retry < MAX_RETRIES
    THEN [r EXCEPT !.retry = r.retry + 1, !.last = how]
    ELSE [r EXCEPT !.pc = "returned", !.out = "None", !.last = how]

\* place_order, lines 144-169: builds the data and enters _request with retry 0
PlaceOrder(side) ==
    /\ cur = "none"
    /\ request.pc # "request"
    /\ nOps < limits.ops
    /\ nOps' = nOps + 1
    /\ request' = [pc |-> "request", call |-> nOps + 1, side |-> side, retry |-> 0,
                   out |-> "-", last |-> "-"]
    /\ UNCHANGED <<client, registry, tokens, pipeline, transport, now, stack, ret, cur,
                   extOp, nFaults, limits, orders>>

\* lines 96-105: the exchange books the order and its answer arrives in time
RequestAnswered ==
    /\ request.pc = "request"
    /\ orders' = Append(orders, Order(request))
    /\ request' = [request EXCEPT !.pc = "returned", !.out = "order", !.last = "answered"]
    /\ UNCHANGED <<client, registry, tokens, pipeline, transport, now, stack, ret, cur,
                   extOp, budgets>>

\* lines 96-103 and 106: the exchange books the order, and the answer is lost or
\* later than API_TIMEOUT, so requests.request raises a RequestException
RequestResponseLost ==
    /\ request.pc = "request"
    /\ orders' = Append(orders, Order(request))
    /\ request' = RequestFailed(request, "lost")
    /\ UNCHANGED <<client, registry, tokens, pipeline, transport, now, stack, ret, cur,
                   extOp, budgets>>

\* lines 96-103 and 106: the request never reaches the exchange
RequestNotSent ==
    /\ request.pc = "request"
    /\ request' = RequestFailed(request, "unsent")
    /\ UNCHANGED <<client, registry, tokens, pipeline, transport, now, stack, ret, cur,
                   extOp, budgets, orders>>

\* line 104: the exchange refuses the order with an error status, and
\* raise_for_status raises HTTPError, a RequestException
RequestRefused ==
    /\ request.pc = "request"
    /\ request' = RequestFailed(request, "refused")
    /\ UNCHANGED <<client, registry, tokens, pipeline, transport, now, stack, ret, cur,
                   extOp, budgets, orders>>

\* a client that places orders, one call after the other
InitOrder ==
    /\ InitClient
    /\ stack = [t \in Tasks |-> <<>>]
    /\ limits = [ops |-> OrderOps, faults |-> 0, frames |-> 0]

NextOrder ==
    \/ \E side \in Sides : PlaceOrder(side)
    \/ RequestAnswered
    \/ RequestResponseLost
    \/ RequestNotSent
    \/ RequestRefused

SpecOrder == InitOrder /\ [][NextOrder]_vars

\* the orders the exchange booked for the c-th place_order call
OrdersOf(c) == {i \in 1..Len(orders) : orders[i].call = c}

\* C29: one place_order call has at most one order accepted by the exchange,
\* whatever the HTTP exchanges of _request's retries come to, a request the
\* exchange processed and whose response timed out or was lost included
C29_AtMostOneOrder == \A c \in 1..OrderOps : Cardinality(OrdersOf(c)) <= 1
====
